---- MODULE Spec2Model ----
(***************************************************************************)
(* whl-hub: the asset installation pipeline (model_operations.install,     *)
(* map_operations.install), the removal flow and the registry kept by      *)
(* AssetManager, as a state machine over the filesystem they act on.       *)
(***************************************************************************)
EXTENDS FiniteSets, Integers, Sequences, TLC

VARIABLES
    pc,        \* position: "down" (no process), "idle" (AssetManager built), or a pipeline stage
    registry,  \* AssetManager.registry: asset name -> record (in memory)
    regFile,   \* the registry file: [state: "absent" | "json" | "partial", doc: mapping]
    dirs,      \* the install roots: install path -> [src: archive id, whole: BOOLEAN]
    scratch,   \* asset kind -> "absent" | "empty" | "populated" (the unzip_tmp_dir of the kind)
    cur,       \* arguments and locals of the operation in progress
    run,       \* what the operation in progress, or the last one of this process, did, and
               \* the state it started from; unsaved: the names whose change this
               \* process made in memory and failed to save
    ops        \* operations started so far

vars == <<pc, registry, regFile, dirs, scratch, cur, run, ops>>

\* Bound of the model: operations (install, remove) started in one behaviour.
MaxOps == 3

\* user_confirmation reads at most this many inputs (for _ in range(3)).
MaxAttempts == 3

-----------------------------------------------------------------------------
(* Values of a YAML descriptor, as yaml.safe_load gives them: strings, dates *)
(* (an unquoted 2024-05-01 is a datetime.date) and null.                    *)

Str(s) == [t |-> "str", v |-> s]
Date(s) == [t |-> "date", v |-> s]
Null == [t |-> "null", v |-> "None"]

\* f"{value}": how a value prints inside an f-string.
Fmt(val) == val.v

\* Python truthiness of a value: None and "" are false.
Truthy(val) == val.t # "null" /\ val.v # ""

AssetTypes == {"model", "map"}

\* BaseMeta._REQUIRED_FIELDS and the subclasses' additions.
BaseRequired == <<"name", "date">>
RequiredFields(kind) ==
    IF kind = "model" THEN BaseRequired \o <<"task_type", "framework", "model">>
    ELSE BaseRequired \o <<"region", "district">>

\* _OPTIONAL_FIELDS of the kind, with their defaults.
OptionalFields(kind) ==
    IF kind = "model"
    THEN [version |-> Str("1.0.0"), sensor_type |-> Null, dataset |-> Null]
    ELSE [version |-> Str("1.0.0")]

\* AssetConfig.model_meta_filename / map_meta_filename.
MetaFilename(kind) == IF kind = "model" THEN "apollo_deploy" ELSE "meta"

\* AssetConfig.unzip_tmp_dir of the kind.
UnzipTmpDir(kind) ==
    IF kind = "model" THEN "/tmp/whl_hub_model_extract" ELSE "/tmp/whl_hub_map_extract"

\* The table looked up without regard to case.
FrameworkAbbreviationAnyCase(fw) ==
    CASE fw \in {Str("Caffe"), Str("caffe")} -> "caffe"
      [] fw \in {Str("PaddlePaddle"), Str("paddlepaddle")} -> "paddle"
      [] fw \in {Str("PyTorch"), Str("pytorch")} -> "torch"
      [] fw \in {Str("TensorFlow"), Str("tensorflow")} -> "tf"
      [] fw \in {Str("Onnx"), Str("onnx")} -> "onnx"
      [] OTHER -> "unknown"

\* AssetConfig.framework_abbreviation.get(framework, 'unknown')
FrameworkAbbreviation(fw) ==
    CASE fw = Str("Caffe") -> "caffe"
      [] fw = Str("PaddlePaddle") -> "paddle"
      [] fw = Str("PyTorch") -> "torch"
      [] fw = Str("TensorFlow") -> "tf"
      [] fw = Str("Onnx") -> "onnx"
      [] OTHER -> "unknown"

\* The attributes parse_from sets on the meta object: every required and
\* optional field, from the descriptor or its default.
Attr(kind, raw, key) ==
    IF key \in DOMAIN raw THEN raw[key]
    ELSE IF key \in DOMAIN OptionalFields(kind) THEN OptionalFields(kind)[key]
    ELSE Null

\* AssetConfig.get_install_path of either kind, under the install root of
\* the kind ("models/", "maps/"). The one for maps raises ValueError when
\* the name is empty or null.
GetInstallPath(kind, raw) ==
    IF kind = "model"
    THEN "models/" \o Fmt(Attr(kind, raw, "name")) \o "_"
             \o FrameworkAbbreviation(Attr(kind, raw, "framework"))
    ELSE IF ~Truthy(Attr(kind, raw, "name")) THEN "ValueError"
    ELSE "maps/" \o Fmt(Attr(kind, raw, "name"))

-----------------------------------------------------------------------------
(* Descriptors and archives the operations are run on.                      *)

LaneNetTorch ==
    [name |-> Str("lane_net"), date |-> Date("2024-05-01"), task_type |-> Str("lane"),
     framework |-> Str("PyTorch"), model |-> Str("lane.pt")]
LaneNetCaffe ==
    [name |-> Str("lane_net"), date |-> Str("2024-05-01"), task_type |-> Str("lane"),
     framework |-> Str("Caffe"), model |-> Str("lane.caffemodel")]
LaneNetNoFramework ==
    [name |-> Str("lane_net"), date |-> Str("2024-05-01"), task_type |-> Str("lane"),
     model |-> Str("lane.pt")]
\* A model descriptor whose name key is there with no value.
LaneNetNullName ==
    [name |-> Null, date |-> Str("2024-05-01"), task_type |-> Str("lane"),
     framework |-> Str("PyTorch"), model |-> Str("lane.pt")]
BorregasAve ==
    [name |-> Str("borregas_ave"), date |-> Date("2023-11-20"), region |-> Str("CA"),
     district |-> Str("Sunnyvale")]
BorregasNoRegion ==
    [name |-> Str("borregas_ave"), date |-> Str("2023-11-20"), district |-> Str("Sunnyvale")]

\* An archive: whether zipfile can read it (zip), the name of the descriptor
\* file it holds (meta_name), where that file lies (layout: "top" at the
\* archive's root, "named" in a directory named like the reference, "single"
\* in the only directory of the archive), and the descriptor (form: "dict" a
\* YAML mapping, "scalar" valid YAML that is no mapping, "badutf8" bytes that
\* do not decode).
Archive(id, zip, layout, meta_name, form, raw) ==
    [id |-> id, zip |-> zip, layout |-> layout, meta_name |-> meta_name,
     form |-> form, raw |-> raw]

Archives ==
    { Archive("lane_net_torch-1", "ok", "single", "apollo_deploy", "dict", LaneNetTorch),
      Archive("lane_net_torch-2", "ok", "top", "apollo_deploy", "dict", LaneNetTorch),
      Archive("lane_net_caffe", "ok", "single", "apollo_deploy", "dict", LaneNetCaffe),
      Archive("lane_net_nofw", "ok", "single", "apollo_deploy", "dict", LaneNetNoFramework),
      Archive("null_name", "ok", "single", "apollo_deploy", "dict", LaneNetNullName),
      Archive("borregas_ave", "ok", "named", "meta", "dict", BorregasAve),
      Archive("borregas_noregion", "ok", "single", "meta", "dict", BorregasNoRegion),
      Archive("borregas_flat", "ok", "top", "meta", "dict", BorregasAve),
      Archive("corrupt", "BadZipFile", "top", "apollo_deploy", "dict", LaneNetTorch),
      Archive("encrypted", "RuntimeError", "top", "apollo_deploy", "dict", LaneNetTorch),
      Archive("scalar", "ok", "single", "apollo_deploy", "scalar", LaneNetTorch),
      Archive("latin1", "ok", "single", "apollo_deploy", "badutf8", LaneNetTorch) }

NoArchive == Archive("none", "ok", "top", "none", "dict", LaneNetTorch)

\* A reference given to install: its text (scheme \o name) and what the
\* local path of that text is. "HTTPS://" is no URL for str.startswith; a
\* text that starts like a URL can still be the relative path of a file
\* (http:/cdn.example/lane_net.zip under the working directory).
Refs ==
    {r \in [scheme : {"http://", "https://", "HTTPS://", ""},
            name : {"lane_net", "cdn.example/lane_net.zip"},
            exists : BOOLEAN, is_file : BOOLEAN] : r.is_file => r.exists}

\* path_or_name, the string itself.
Text(ref) == ref.scheme \o ref.name

\* AssetConfig.cdn_url_template of the kind, split at its "{}".
CdnUrlTemplate(kind) ==
    IF kind = "model"
    THEN [pre |-> "https://apollo-pkg-beta.cdn.bcebos.com/perception_model/", post |-> ".zip"]
    ELSE [pre |-> "https://example.com/maps/", post |-> ".zip"]

\* A config whose cdn_url_template is missing or empty.
NoTemplate == [pre |-> "", post |-> ""]

\* What download_from_url does for resolve_asset_path: a file, None, or an
\* exception.
DownloadResults == {"ok", "None", "raise"}

-----------------------------------------------------------------------------
(* utils.py                                                                  *)

\* path_or_name.startswith(('http://', 'https://'))
StartsWithUrl(ref) == ref.scheme \in {"http://", "https://"}

\* hasattr(config, 'cdn_url_template') and config.cdn_url_template
Configured(template) == template.pre \o template.post # ""

\* config.cdn_url_template.format(path_or_name)
Format(template, text) == template.pre \o text \o template.post

\* What resolve_asset_path returns: None, the file download_from_url wrote
\* for a URL, or Path(path_or_name).
NoPath == [kind |-> "None", of |-> ""]
Downloaded(url) == [kind |-> "download", of |-> url]
LocalPath(text) == [kind |-> "local", of |-> text]

\* resolve_asset_path going on to the catalog and the local file after a
\* failed download of a URL.
ResolveAssetPathFallingThrough(ref, template, dl) ==
    IF StartsWithUrl(ref) /\ dl = "ok"
    THEN [path |-> Downloaded(Text(ref)), downloads |-> <<Text(ref)>>, local_checked |-> FALSE]
    ELSE LET first == IF StartsWithUrl(ref) THEN <<Text(ref)>> ELSE <<>>
             tried == ~ref.exists /\ Configured(template)
             cdn_url == Format(template, Text(ref))
         IN  IF tried /\ dl = "ok"
             THEN [path |-> Downloaded(cdn_url), downloads |-> first \o <<cdn_url>>,
                   local_checked |-> FALSE]
             ELSE [path |-> IF ref.exists /\ ref.is_file THEN LocalPath(Text(ref)) ELSE NoPath,
                   downloads |-> first \o (IF tried THEN <<cdn_url>> ELSE <<>>),
                   local_checked |-> TRUE]

\* resolve_asset_path asking the catalog before it looks at the local path.
ResolveAssetPathCatalogFirst(ref, template, dl) ==
    IF StartsWithUrl(ref)
    THEN [path |-> IF dl = "ok" THEN Downloaded(Text(ref)) ELSE NoPath,
          downloads |-> <<Text(ref)>>, local_checked |-> FALSE]
    ELSE LET tried == Configured(template)
             cdn_url == Format(template, Text(ref))
         IN  IF tried /\ dl = "ok"
             THEN [path |-> Downloaded(cdn_url), downloads |-> <<cdn_url>>,
                   local_checked |-> FALSE]
             ELSE [path |-> IF ref.exists /\ ref.is_file THEN LocalPath(Text(ref)) ELSE NoPath,
                   downloads |-> IF tried THEN <<cdn_url>> ELSE <<>>,
                   local_checked |-> TRUE]

\* resolve_asset_path: what it returns, the URLs it asked download_from_url
\* for, in order, and whether the local-file step was reached. dl is how
\* the download ends, if one is made.
ResolveAssetPath(ref, template, dl) ==
    IF StartsWithUrl(ref)
    THEN [path |-> IF dl = "ok" THEN Downloaded(Text(ref)) ELSE NoPath,
          downloads |-> <<Text(ref)>>, local_checked |-> FALSE]
    ELSE LET tried == ~ref.exists /\ Configured(template)
             cdn_url == Format(template, Text(ref))
         IN  IF tried /\ dl = "ok"
             THEN [path |-> Downloaded(cdn_url), downloads |-> <<cdn_url>>,
                   local_checked |-> FALSE]
             ELSE [path |-> IF ref.exists /\ ref.is_file THEN LocalPath(Text(ref)) ELSE NoPath,
                   downloads |-> IF tried THEN <<cdn_url>> ELSE <<>>,
                   local_checked |-> TRUE]

\* The file behind a URL, in blocks of equal size.
Remote == <<"b1", "b2">>

\* local_file before the call: absent, or what an earlier call left: empty,
\* a part of the remote file, all of it, other bytes, or more than it.
NoFile == [exists |-> FALSE, content |-> <<>>]
File(content) == [exists |-> TRUE, content |-> content]
LocalFiles ==
    {NoFile} \cup {File(c) : c \in {<<>>, <<"b1">>, <<"b1", "b2">>, <<"x1">>,
                                     <<"b1", "b2", "x3">>}}

\* How the server answers one requests.get: a status (or no answer at
\* all), and whether the body arrives whole or the stream breaks before its
\* last block.
Statuses == {"200", "206", "416", "404", "ConnectionError"}
Answers == [status : Statuses, complete : BOOLEAN]

\* The body of an answer with a 2xx status: the rest of the file from the
\* offset of the Range header for a 206, the file otherwise.
Body(status, req) ==
    IF status = "206" /\ req.ranged
    THEN SubSeq(Remote, req.from + 1, Len(Remote))
    ELSE Remote

\* The blocks iter_content yields before it ends or raises.
Received(answer, body) ==
    IF answer.complete THEN body ELSE SubSeq(body, 1, Len(body) - 1)

\* download_from_url writing the fresh answer after the partial file.
DownloadFromUrlKeepingPartial(local, first, fresh) ==
    LET req1 == [ranged |-> local.exists,
                 from |-> IF local.exists THEN Len(local.content) ELSE 0]
        req2 == [ranged |-> FALSE, from |-> 0]
    IN  CASE first.status = "416" /\ local.exists /\ fresh.status \in {"200", "206"} ->
                 [ret |-> IF fresh.complete THEN "local_file" ELSE "None",
                  file |-> File(local.content \o Received(fresh, Body(fresh.status, req2))),
                  requests |-> <<req1, req2>>]
          [] first.status = "416" /\ local.exists ->
                 [ret |-> "None", file |-> local, requests |-> <<req1, req2>>]
          [] first.status = "416" ->
                 [ret |-> "FileNotFoundError", file |-> local, requests |-> <<req1>>]
          [] first.status \in {"404", "ConnectionError"} ->
                 [ret |-> "None", file |-> local, requests |-> <<req1>>]
          [] OTHER ->
                 LET got == Received(first, Body(first.status, req1))
                     written == IF req1.ranged /\ first.status = "206"
                                THEN File(local.content \o got) ELSE File(got)
                 IN  IF first.complete
                     THEN [ret |-> "local_file", file |-> written, requests |-> <<req1>>]
                     ELSE [ret |-> "None",
                           file |-> IF req1.ranged THEN written ELSE NoFile,
                           requests |-> <<req1>>]

\* download_from_url appending whenever it sent a Range header.
DownloadFromUrlAlwaysAppending(local, first, fresh) ==
    LET req1 == [ranged |-> local.exists,
                 from |-> IF local.exists THEN Len(local.content) ELSE 0]
        req2 == [ranged |-> FALSE, from |-> 0]
    IN  CASE first.status = "416" /\ local.exists /\ fresh.status \in {"200", "206"} ->
                 [ret |-> IF fresh.complete THEN "local_file" ELSE "None",
                  file |-> File(Received(fresh, Body(fresh.status, req2))),
                  requests |-> <<req1, req2>>]
          [] first.status = "416" /\ local.exists ->
                 [ret |-> "None", file |-> NoFile, requests |-> <<req1, req2>>]
          [] first.status = "416" ->
                 [ret |-> "FileNotFoundError", file |-> local, requests |-> <<req1>>]
          [] first.status \in {"404", "ConnectionError"} ->
                 [ret |-> "None", file |-> local, requests |-> <<req1>>]
          [] OTHER ->
                 LET got == Received(first, Body(first.status, req1))
                     written == IF req1.ranged
                                THEN File(local.content \o got) ELSE File(got)
                 IN  IF first.complete
                     THEN [ret |-> "local_file", file |-> written, requests |-> <<req1>>]
                     ELSE [ret |-> "None",
                           file |-> IF req1.ranged THEN written ELSE NoFile,
                           requests |-> <<req1>>]

\* download_from_url(url): what it returns ("local_file", "None", or the
\* exception that leaves it), local_file afterwards, and the requests made:
\* whether each carried a Range header, and from which offset. A Range
\* header is sent exactly when local_file exists. A 416 makes it unlink the
\* file and ask once more without the header; a RequestException (an error
\* status, no connection, a broken stream) ends in None, the file unlinked
\* only if no Range header was sent.
DownloadFromUrl(local, first, fresh) ==
    LET req1 == [ranged |-> local.exists,
                 from |-> IF local.exists THEN Len(local.content) ELSE 0]
        req2 == [ranged |-> FALSE, from |-> 0]
    IN  CASE first.status = "416" /\ local.exists /\ fresh.status \in {"200", "206"} ->
                 [ret |-> IF fresh.complete THEN "local_file" ELSE "None",
                  file |-> File(Received(fresh, Body(fresh.status, req2))),
                  requests |-> <<req1, req2>>]
          [] first.status = "416" /\ local.exists ->
                 [ret |-> "None", file |-> NoFile, requests |-> <<req1, req2>>]
          [] first.status = "416" ->
                 [ret |-> "FileNotFoundError", file |-> local, requests |-> <<req1>>]
          [] first.status \in {"404", "ConnectionError"} ->
                 [ret |-> "None", file |-> local, requests |-> <<req1>>]
          [] OTHER ->
                 LET got == Received(first, Body(first.status, req1))
                     written == IF req1.ranged /\ first.status = "206"
                                THEN File(local.content \o got) ELSE File(got)
                 IN  IF first.complete
                     THEN [ret |-> "local_file", file |-> written, requests |-> <<req1>>]
                     ELSE [ret |-> "None",
                           file |-> IF req1.ranged THEN written ELSE NoFile,
                           requests |-> <<req1>>]

\* What the user types at a prompt; "<EOF>" is a closed standard input.
Tokens == {" YES ", "n", "maybe", "<EOF>"}

\* input(prompt).lower().strip()
LowerStrip(tok) ==
    CASE tok = " YES " -> "yes"
      [] tok = "No" -> "no"
      [] tok = "  " -> ""
      [] OTHER -> tok

YES_CHOICES == {"yes", "y"}
NO_CHOICES == {"no", "n"}

\* user_confirmation on the inputs typed, from attempt i on: "True", "False",
\* or "EOFError" when input() raises.
RECURSIVE ConfirmFrom(_, _)
ConfirmFrom(inputs, i) ==
    IF i > MaxAttempts THEN "False"
    ELSE IF inputs[i] = "<EOF>" THEN "EOFError"
    ELSE IF LowerStrip(inputs[i]) \in YES_CHOICES THEN "True"
    ELSE IF LowerStrip(inputs[i]) \in NO_CHOICES THEN "False"
    ELSE ConfirmFrom(inputs, i + 1)

\* user_confirmation asking again after a no.
RECURSIVE ConfirmFromIgnoringNo(_, _)
ConfirmFromIgnoringNo(inputs, i) ==
    IF i > MaxAttempts THEN "False"
    ELSE IF inputs[i] = "<EOF>" THEN "EOFError"
    ELSE IF LowerStrip(inputs[i]) \in YES_CHOICES THEN "True"
    ELSE ConfirmFromIgnoringNo(inputs, i + 1)

user_confirmationIgnoringNo(inputs) == ConfirmFromIgnoringNo(inputs, 1)

user_confirmation(inputs) == ConfirmFrom(inputs, 1)

\* The calls of input() user_confirmation makes on the inputs typed, from
\* attempt i on.
RECURSIVE ReadsFrom(_, _)
ReadsFrom(inputs, i) ==
    IF i > MaxAttempts THEN 0
    ELSE IF inputs[i] = "<EOF>" THEN 1
    ELSE IF LowerStrip(inputs[i]) \in YES_CHOICES \cup NO_CHOICES THEN 1
    ELSE 1 + ReadsFrom(inputs, i + 1)

Inputs == [1..MaxAttempts -> Tokens]

\* The inputs an operation can read: nothing is read when it does not prompt.
InputsRead(prompts) == IF prompts THEN Inputs ELSE {[i \in 1..MaxAttempts |-> "<EOF>"]}

-----------------------------------------------------------------------------
(* meta.py                                                                   *)

\* The validation looking at the fields of BaseMeta only.
FirstMissingOfBase(kind, raw) ==
    LET req == BaseRequired
        miss == {i \in 1..Len(req) : req[i] \notin DOMAIN raw}
    IN  IF miss = {} THEN ""
        ELSE req[CHOOSE i \in miss : \A j \in miss : i <= j]

\* BaseMeta.parse_from, validation of the required fields: the first one
\* missing from the descriptor, "" when none is.
FirstMissing(kind, raw) ==
    LET req == RequiredFields(kind)
        miss == {i \in 1..Len(req) : req[i] \notin DOMAIN raw}
    IN  IF miss = {} THEN ""
        ELSE req[CHOOSE i \in miss : \A j \in miss : i <= j]

\* BaseMeta.parse_from on the descriptor of an archive: "True", "False", or
\* "UnicodeDecodeError" (neither yaml.YAMLError nor IOError: not caught).
ParseFrom(kind, archive) ==
    CASE archive.form = "badutf8" -> "UnicodeDecodeError"
      [] archive.form = "scalar" -> "False"
      [] OTHER -> IF FirstMissing(kind, archive.raw) = "" THEN "True" ELSE "False"

\* to_dict leaving a type key of the descriptor as it is.
ToDictKeepingType(kind, raw) ==
    [k \in DOMAIN raw \cup {"type"} |-> IF k \in DOMAIN raw THEN raw[k] ELSE Str(kind)]

\* BaseMeta.to_dict, then install's metadata['install_path'] = str(install_path).
ToDict(kind, raw) ==
    [k \in DOMAIN raw \cup {"type"} |-> IF k = "type" THEN Str(kind) ELSE raw[k]]

Metadata(kind, raw, install_path) ==
    LET data == ToDict(kind, raw)
    IN  [k \in DOMAIN data \cup {"install_path"} |->
            IF k = "install_path" THEN Str(install_path) ELSE data[k]]

-----------------------------------------------------------------------------
(* model_operations.py / map_operations.py: AssetConfig                      *)

\* AssetConfig.find_meta_file: the directory holding the descriptor, "root"
\* (the scratch directory itself) or "sub" (a directory under it); "None"
\* when no descriptor is found. The model search recurses (rglob); the map
\* search looks into the directory named like the reference, or the only
\* directory present.
FindMetaFile(kind, archive) ==
    IF archive.meta_name # MetaFilename(kind) THEN "None"
    ELSE IF kind = "model" THEN (IF archive.layout = "top" THEN "root" ELSE "sub")
    ELSE IF archive.layout \in {"named", "single"} THEN "sub"
    ELSE "None"

-----------------------------------------------------------------------------
(* manager.py: the registry and its file                                     *)

EmptyRegistry == [n \in {} |-> Null]

\* CustomJSONEncoder.default writing every date as a datetime.
JsonValueAsDatetime(val) == IF val.t = "date" THEN Str(val.v \o "T00:00:00") ELSE val

\* CustomJSONEncoder.default on a value: a date is written as its ISO string.
JsonValue(val) == IF val.t = "date" THEN Str(val.v) ELSE val

\* json.dump(self.registry, ...) followed by json.load: the document a reader
\* of the registry file gets.
JsonDoc(reg) == [n \in DOMAIN reg |-> [k \in DOMAIN reg[n] |-> JsonValue(reg[n][k])]]

\* How a save can end: written; open() raises IOError (the file is left as
\* it was); the write raises IOError after open() truncated the file.
SaveResults == {"ok", "open_fails", "write_fails"}

\* A save that merges the mapping into the document already on disk.
SaveRegistryMerging(reg, file, sv) ==
    CASE sv = "ok" ->
             [state |-> "json",
              doc |-> [n \in DOMAIN file.doc \cup DOMAIN reg |->
                          IF n \in DOMAIN reg THEN JsonDoc(reg)[n] ELSE file.doc[n]]]
      [] sv = "open_fails" -> file
      [] sv = "write_fails" -> [state |-> "partial", doc |-> EmptyRegistry]

\* AssetManager._save_registry: the registry file afterwards. IOError is
\* caught and logged, so the caller goes on in every case.
SaveRegistry(reg, file, sv) ==
    CASE sv = "ok" -> [state |-> "json", doc |-> JsonDoc(reg)]
      [] sv = "open_fails" -> file
      [] sv = "write_fails" -> [state |-> "partial", doc |-> EmptyRegistry]

\* self.registry[asset_name] = metadata
Put(reg, name, metadata) ==
    [n \in DOMAIN reg \cup {name} |-> IF n = name THEN metadata ELSE reg[n]]

\* del self.registry[asset_name]
Del(reg, name) == [n \in DOMAIN reg \ {name} |-> reg[n]]

\* The filesystem under the install roots.
NoDirs == [p \in {} |-> [src |-> "", whole |-> TRUE]]
Mkdir(d, path, content) ==
    [p \in DOMAIN d \cup {path} |-> IF p = path THEN content ELSE d[p]]
Rmtree(d, path) == [p \in DOMAIN d \ {path} |-> d[p]]

\* What a failed shutil.rmtree can leave of an existing directory: all of
\* it, or a part of it. The directory itself is still there.
RmtreeLeftovers(d, path) ==
    {d, [d EXCEPT ![path] = [src |-> d[path].src, whole |-> FALSE]]}

NoCur ==
    [asset_type |-> "model", skip |-> FALSE,
     archive |-> NoArchive, content |-> "None", install_path |-> "",
     ret |-> "None", exc |-> "none"]

NoRun ==
    [op |-> "none", asset_type |-> "model", skip |-> FALSE, trace |-> <<>>,
     regBefore |-> EmptyRegistry,
     fileBefore |-> [state |-> "absent", doc |-> EmptyRegistry],
     dirsBefore |-> NoDirs, target |-> "", existed |-> FALSE, answer |-> "none",
     outcome |-> "none", failure |-> "", reported |-> "none",
     unsaved |-> {}]

Init ==
    /\ pc = "down"
    /\ registry = EmptyRegistry
    /\ regFile = [state |-> "absent", doc |-> EmptyRegistry]
    /\ dirs = NoDirs
    /\ scratch = [k \in AssetTypes |-> "absent"]
    /\ cur = NoCur
    /\ run = NoRun
    /\ ops = 0

\* AssetManager.__init__ going on with an empty registry when the file cannot
\* be parsed, and writing it out.
StartupRecovering ==
    /\ pc = "down"
    /\ \E sv \in IF regFile.state # "json" THEN SaveResults ELSE {"ok"} :
        /\ registry' = IF regFile.state = "json" THEN regFile.doc ELSE EmptyRegistry
        /\ regFile' = IF regFile.state = "json" THEN regFile
                      ELSE SaveRegistry(EmptyRegistry, regFile, sv)
        /\ pc' = "idle"
        /\ run' = [NoRun EXCEPT !.op = "startup", !.fileBefore = regFile,
                                !.outcome = IF regFile.state = "json" THEN "loaded"
                                            ELSE "created",
                                !.trace = IF regFile.state = "json" THEN <<>>
                                          ELSE IF sv = "ok" THEN <<"save">>
                                          ELSE <<"save-failed">>]
    /\ UNCHANGED <<dirs, scratch, cur, ops>>

\* AssetManager.__init__: load the registry file, create it when absent,
\* exit(1) when it cannot be parsed.
Startup ==
    /\ pc = "down"
    /\ \E sv \in IF regFile.state = "absent" THEN SaveResults ELSE {"ok"} :
        CASE regFile.state = "json" ->
                /\ registry' = regFile.doc
                /\ pc' = "idle"
                /\ run' = [NoRun EXCEPT !.op = "startup", !.fileBefore = regFile,
                                        !.outcome = "loaded"]
                /\ UNCHANGED regFile
          [] regFile.state = "absent" ->
                /\ registry' = EmptyRegistry
                /\ regFile' = SaveRegistry(EmptyRegistry, regFile, sv)
                /\ pc' = "idle"
                /\ run' = [NoRun EXCEPT !.op = "startup", !.fileBefore = regFile,
                                        !.outcome = "created",
                                        !.trace = IF sv = "ok" THEN <<"save">>
                                                  ELSE <<"save-failed">>]
          [] OTHER ->
                /\ registry' = EmptyRegistry
                /\ pc' = "down"
                /\ run' = [NoRun EXCEPT !.op = "startup", !.fileBefore = regFile,
                                        !.outcome = "fatal", !.reported = "critical"]
                /\ UNCHANGED regFile
    /\ UNCHANGED <<dirs, scratch, cur, ops>>

\* main returns after its one command: the process ends.
ProcessExit ==
    /\ pc = "idle"
    /\ pc' = "down"
    /\ UNCHANGED <<registry, regFile, dirs, scratch, cur, run, ops>>

-----------------------------------------------------------------------------
(* model_operations.install / map_operations.install, stage by stage. Every  *)
(* return and every exception inside the try block goes through Cleanup,     *)
(* the finally block.                                                        *)

Log(r, event) == [r EXCEPT !.trace = Append(@, event)]

\* AssetManager.install dispatches on the asset type; install clears a stale
\* scratch directory and creates it anew, outside the try block.
InstallBegin ==
    /\ pc = "idle"
    /\ ops < MaxOps
    /\ \E asset_type \in AssetTypes, skip \in BOOLEAN :
        /\ cur' = [NoCur EXCEPT !.asset_type = asset_type, !.skip = skip]
        /\ run' = [NoRun EXCEPT !.op = "install", !.asset_type = asset_type,
                                !.skip = skip, !.trace = <<"SETUP">>,
                                !.regBefore = registry, !.fileBefore = regFile,
                                !.dirsBefore = dirs, !.unsaved = run.unsaved]
        /\ scratch' = [scratch EXCEPT ![asset_type] = "empty"]
    /\ ops' = ops + 1
    /\ pc' = "ACQUIRING"
    /\ UNCHANGED <<registry, regFile, dirs>>

\* Stage 1: resolve_asset_path on the reference given to install, for every
\* reference and every way its download can end: no path, a downloaded
\* file or the local file. The archive is whatever that file holds.
Acquiring ==
    /\ pc = "ACQUIRING"
    /\ \E kind \in {ResolveAssetPath(ref, CdnUrlTemplate(cur.asset_type), dl).path.kind :
                         ref \in Refs, dl \in DownloadResults},
          archive \in Archives :
            IF kind = NoPath.kind
            THEN /\ cur' = [cur EXCEPT !.ret = "None"]
                 /\ run' = [Log(run, "ACQUIRING") EXCEPT
                                !.outcome = "failed", !.failure = "AssetNotFound"]
                 /\ pc' = "CLEANUP"
            ELSE /\ cur' = [cur EXCEPT !.archive = archive]
                 /\ run' = Log(run, "ACQUIRING")
                 /\ pc' = "EXTRACTING"
    /\ UNCHANGED <<registry, regFile, dirs, scratch, ops>>

\* Stage 2: unzip_file clears and recreates the scratch directory, then
\* extracts. BadZipFile is caught (None is returned, the directory stays,
\* empty or with what was extracted before the error); any other exception
\* of zipfile (RuntimeError for an encrypted member) is not.
Extracting ==
    /\ pc = "EXTRACTING"
    /\ CASE cur.archive.zip = "ok" ->
                /\ scratch' = [scratch EXCEPT ![cur.asset_type] = "populated"]
                /\ cur' = cur
                /\ run' = Log(run, "EXTRACTING")
                /\ pc' = "PARSING"
         [] cur.archive.zip = "BadZipFile" ->
                /\ \E left \in {"empty", "populated"} :
                       scratch' = [scratch EXCEPT ![cur.asset_type] = left]
                /\ cur' = [cur EXCEPT !.ret = "None"]
                /\ run' = [Log(run, "EXTRACTING") EXCEPT
                               !.outcome = "failed", !.failure = "ArchiveCorrupt"]
                /\ pc' = "CLEANUP"
         [] OTHER ->
                /\ \E left \in {"empty", "populated"} :
                       scratch' = [scratch EXCEPT ![cur.asset_type] = left]
                /\ cur' = [cur EXCEPT !.exc = cur.archive.zip]
                /\ run' = [Log(run, "EXTRACTING") EXCEPT
                               !.outcome = "raised", !.failure = cur.archive.zip]
                /\ pc' = "CLEANUP"
    /\ UNCHANGED <<registry, regFile, dirs, ops>>

\* ParsingVerdict with the result of parse_from not looked at.
ParsingVerdictUnchecked(kind, archive) ==
    IF FindMetaFile(kind, archive) = "None" THEN "DescriptorMissing"
    ELSE "continue"

\* Stage 3: find_meta_file, parse_from, and for a map the check of the name.
\* "continue" or the failure the stage ends the run with.
ParsingVerdict(kind, archive) ==
    IF FindMetaFile(kind, archive) = "None" THEN "DescriptorMissing"
    ELSE IF ParseFrom(kind, archive) = "False" THEN "ValidationFailure"
    ELSE IF ParseFrom(kind, archive) # "True" THEN ParseFrom(kind, archive)
    ELSE IF kind = "map" /\ ~Truthy(Attr(kind, archive.raw, "name")) THEN "ValidationFailure"
    ELSE "continue"

Parsing ==
    /\ pc = "PARSING"
    /\ LET verdict == ParsingVerdict(cur.asset_type, cur.archive)
       IN  CASE verdict = "continue" ->
                    /\ cur' = [cur EXCEPT !.content = FindMetaFile(cur.asset_type, cur.archive)]
                    /\ run' = Log(run, "PARSING")
                    /\ pc' = "PLANNING"
             [] verdict \in {"DescriptorMissing", "ValidationFailure"} ->
                    /\ cur' = [cur EXCEPT !.ret = "None"]
                    /\ run' = [Log(run, "PARSING") EXCEPT
                                   !.outcome = "failed", !.failure = verdict]
                    /\ pc' = "CLEANUP"
             [] OTHER ->
                    /\ cur' = [cur EXCEPT !.exc = verdict]
                    /\ run' = [Log(run, "PARSING") EXCEPT
                                   !.outcome = "raised", !.failure = verdict]
                    /\ pc' = "CLEANUP"
    /\ UNCHANGED <<registry, regFile, dirs, scratch, ops>>

\* Stage 4, first line: install_path = config.get_install_path(meta).
Planning ==
    /\ pc = "PLANNING"
    /\ cur' = [cur EXCEPT !.install_path = GetInstallPath(cur.asset_type, cur.archive.raw)]
    /\ run' = [Log(run, "PLANNING") EXCEPT
                   !.target = GetInstallPath(cur.asset_type, cur.archive.raw),
                   !.existed = GetInstallPath(cur.asset_type, cur.archive.raw) \in DOMAIN dirs]
    /\ pc' = "CONFLICT_CHECK"
    /\ UNCHANGED <<registry, regFile, dirs, scratch, ops>>

\* Variants of ConflictDecision with a slip in them, used to show that the
\* properties below rest on it: the skip branch returning the metadata, the
\* skip flag not being looked at, the directory being deleted whatever the
\* answer.
ConflictDecisionSkipReturnsMetadata(exists, skip, inputs) ==
    IF ~exists THEN [prompt |-> FALSE, delete |-> FALSE, next |-> "INSTALLING", ret |-> ""]
    ELSE IF skip THEN [prompt |-> FALSE, delete |-> FALSE, next |-> "skipped", ret |-> "metadata"]
    ELSE CASE user_confirmation(inputs) = "True" ->
                  [prompt |-> TRUE, delete |-> TRUE, next |-> "INSTALLING", ret |-> ""]
           [] user_confirmation(inputs) = "False" ->
                  [prompt |-> TRUE, delete |-> FALSE, next |-> "cancelled", ret |-> "None"]
           [] OTHER ->
                  [prompt |-> TRUE, delete |-> FALSE, next |-> user_confirmation(inputs),
                   ret |-> ""]

ConflictDecisionIgnoringSkip(exists, skip, inputs) ==
    IF ~exists THEN [prompt |-> FALSE, delete |-> FALSE, next |-> "INSTALLING", ret |-> ""]
    ELSE CASE user_confirmation(inputs) = "True" ->
                  [prompt |-> TRUE, delete |-> TRUE, next |-> "INSTALLING", ret |-> ""]
           [] user_confirmation(inputs) = "False" ->
                  [prompt |-> TRUE, delete |-> FALSE, next |-> "cancelled", ret |-> "None"]
           [] OTHER ->
                  [prompt |-> TRUE, delete |-> FALSE, next |-> user_confirmation(inputs),
                   ret |-> ""]

ConflictDecisionDeletesUnasked(exists, skip, inputs) ==
    IF ~exists THEN [prompt |-> FALSE, delete |-> FALSE, next |-> "INSTALLING", ret |-> ""]
    ELSE IF skip THEN [prompt |-> FALSE, delete |-> FALSE, next |-> "skipped", ret |-> "None"]
    ELSE CASE user_confirmation(inputs) \in {"True", "False"} ->
                  [prompt |-> TRUE, delete |-> TRUE, next |-> "INSTALLING", ret |-> ""]
           [] OTHER ->
                  [prompt |-> TRUE, delete |-> FALSE, next |-> user_confirmation(inputs),
                   ret |-> ""]

\* Stage 4: what install does about the target path: whether it prompts,
\* whether it deletes the existing directory, where it goes next
\* ("INSTALLING", a return as "skipped" or "cancelled", or the exception
\* input() raised), and what it returns when it returns here.
ConflictDecision(exists, skip, inputs) ==
    IF ~exists THEN [prompt |-> FALSE, delete |-> FALSE, next |-> "INSTALLING", ret |-> ""]
    ELSE IF skip THEN [prompt |-> FALSE, delete |-> FALSE, next |-> "skipped", ret |-> "None"]
    ELSE CASE user_confirmation(inputs) = "True" ->
                  [prompt |-> TRUE, delete |-> TRUE, next |-> "INSTALLING", ret |-> ""]
           [] user_confirmation(inputs) = "False" ->
                  [prompt |-> TRUE, delete |-> FALSE, next |-> "cancelled", ret |-> "None"]
           [] OTHER ->
                  [prompt |-> TRUE, delete |-> FALSE, next |-> user_confirmation(inputs),
                   ret |-> ""]

ConflictCheck ==
    /\ pc = "CONFLICT_CHECK"
    /\ \E inputs \in InputsRead(cur.install_path \in DOMAIN dirs /\ ~cur.skip) :
       \E rm \in {"ok", "OSError"} :
        LET d == ConflictDecision(cur.install_path \in DOMAIN dirs, cur.skip, inputs)
            r == IF d.prompt
                 THEN [Log(Log(run, "CONFLICT_CHECK"), "prompt") EXCEPT
                           !.answer = user_confirmation(inputs)]
                 ELSE Log(run, "CONFLICT_CHECK")
        IN  CASE d.next \in {"skipped", "cancelled"} ->
                     /\ cur' = [cur EXCEPT !.ret = d.ret]
                     /\ run' = [r EXCEPT !.outcome = d.next]
                     /\ pc' = "CLEANUP"
                     /\ UNCHANGED dirs
              [] d.next = "INSTALLING" /\ ~d.delete ->
                     /\ cur' = cur
                     /\ run' = r
                     /\ pc' = "INSTALLING"
                     /\ UNCHANGED dirs
              [] d.next = "INSTALLING" /\ d.delete /\ rm = "ok" ->
                     /\ dirs' = Rmtree(dirs, cur.install_path)
                     /\ cur' = cur
                     /\ run' = Log(r, "rmtree")
                     /\ pc' = "INSTALLING"
              [] d.next = "INSTALLING" /\ d.delete /\ rm # "ok" ->
                     /\ dirs' \in RmtreeLeftovers(dirs, cur.install_path)
                     /\ cur' = [cur EXCEPT !.exc = rm]
                     /\ run' = [Log(r, "rmtree") EXCEPT !.outcome = "raised", !.failure = rm]
                     /\ pc' = "CLEANUP"
              [] OTHER ->
                     /\ cur' = [cur EXCEPT !.exc = d.next]
                     /\ run' = [r EXCEPT !.outcome = "raised", !.failure = d.next]
                     /\ pc' = "CLEANUP"
                     /\ UNCHANGED dirs
    /\ UNCHANGED <<registry, regFile, scratch, ops>>

\* How shutil.move can end: done; or an OSError with nothing created at the
\* target, or with a part of the content copied to it.
MoveResults == {"ok", "OSError", "OSError-partial"}

\* Stages 5 and 6: shutil.move of the directory holding the descriptor to
\* the install path (the scratch directory itself when the descriptor lies
\* at its root), then the metadata to return. No except clause: a failed
\* move leaves the function as an exception.
Installing ==
    /\ pc = "INSTALLING"
    /\ \E mv \in MoveResults :
        CASE mv = "ok" ->
                 /\ dirs' = Mkdir(dirs, cur.install_path,
                                  [src |-> cur.archive.id, whole |-> TRUE])
                 /\ scratch' = [scratch EXCEPT ![cur.asset_type] =
                                    IF cur.content = "root" THEN "absent" ELSE "populated"]
                 /\ cur' = [cur EXCEPT !.ret = "metadata"]
                 /\ run' = [Log(Log(run, "INSTALLING"), "move") EXCEPT !.outcome = "DONE"]
          [] mv = "OSError" ->
                 /\ UNCHANGED <<dirs, scratch>>
                 /\ cur' = [cur EXCEPT !.exc = "OSError"]
                 /\ run' = [Log(run, "INSTALLING") EXCEPT
                                !.outcome = "raised", !.failure = "OSError"]
          [] OTHER ->
                 /\ dirs' = Mkdir(dirs, cur.install_path,
                                  [src |-> cur.archive.id, whole |-> FALSE])
                 /\ UNCHANGED scratch
                 /\ cur' = [cur EXCEPT !.exc = "OSError"]
                 /\ run' = [Log(Log(run, "INSTALLING"), "move-partial") EXCEPT
                                !.outcome = "raised", !.failure = "OSError"]
    /\ pc' = "CLEANUP"
    /\ UNCHANGED <<registry, regFile, ops>>

\* Cleanup as the last statement of the try block instead of a finally
\* block: reached only when nothing returned or raised before it.
CleanupAfterTryBody ==
    /\ pc = "CLEANUP"
    /\ scratch' = [scratch EXCEPT ![cur.asset_type] =
                       IF cur.ret = "metadata" THEN "absent" ELSE @]
    /\ run' = Log(run, "CLEANUP")
    /\ pc' = "RETURNED"
    /\ UNCHANGED <<registry, regFile, dirs, cur, ops>>

\* finally: remove the scratch directory if it exists.
Cleanup ==
    /\ pc = "CLEANUP"
    /\ scratch' = [scratch EXCEPT ![cur.asset_type] = "absent"]
    /\ run' = Log(run, "CLEANUP")
    /\ pc' = "RETURNED"
    /\ UNCHANGED <<registry, regFile, dirs, cur, ops>>

-----------------------------------------------------------------------------
(* manager.py: AssetManager.install after the pipeline, AssetManager.remove  *)

\* The dictionary install returns on success (stage 6).
ReturnedMetadata == Metadata(cur.asset_type, cur.archive.raw, cur.install_path)

\* if metadata and metadata.get('name'):
StoresRecord(ret, metadata) == ret = "metadata" /\ Truthy(metadata.name)

\* AssetManager.install, from the return of the pipeline on. An exception
\* of the pipeline passes through AssetManager.install and main, neither of
\* which catches anything: the process ends with a traceback.
InstallReturn ==
    /\ pc = "RETURNED"
    /\ \E sv \in IF cur.exc = "none" /\ StoresRecord(cur.ret, ReturnedMetadata)
                 THEN SaveResults ELSE {"ok"} :
        CASE cur.exc # "none" ->
                 /\ run' = [run EXCEPT !.reported = "traceback"]
                 /\ pc' = "down"
                 /\ UNCHANGED <<registry, regFile>>
          [] cur.exc = "none" /\ StoresRecord(cur.ret, ReturnedMetadata) ->
                 /\ registry' = Put(registry, Fmt(ReturnedMetadata.name), ReturnedMetadata)
                 /\ regFile' = SaveRegistry(registry', regFile, sv)
                 /\ run' = [Log(Log(Log(run, "registry"),
                                    IF sv = "ok" THEN "save" ELSE "save-failed"), "info")
                                EXCEPT !.reported = "info",
                                       !.unsaved = IF sv = "ok" THEN @
                                                   ELSE @ \cup {Fmt(ReturnedMetadata.name)}]
                 /\ pc' = "idle"
          [] OTHER ->
                 /\ run' = [Log(run, "error") EXCEPT !.reported = "error"]
                 /\ pc' = "idle"
                 /\ UNCHANGED <<registry, regFile>>
    /\ cur' = NoCur
    /\ UNCHANGED <<dirs, scratch, ops>>

\* The names remove is asked for.
AssetNames == {"lane_net", "borregas_ave", "yolo"}

\* remove treating a missing install directory as a failure.
OpsRemoveMissingIsError(metadata, d, inputs) ==
    IF "install_path" \notin DOMAIN metadata \/ ~Truthy(metadata.install_path)
    THEN [result |-> "False", prompt |-> FALSE, delete |-> FALSE]
    ELSE IF metadata.install_path.v \notin DOMAIN d
    THEN [result |-> "False", prompt |-> FALSE, delete |-> FALSE]
    ELSE CASE user_confirmation(inputs) = "True" ->
                  [result |-> "True", prompt |-> TRUE, delete |-> TRUE]
           [] OTHER ->
                  [result |-> user_confirmation(inputs), prompt |-> TRUE, delete |-> FALSE]

\* remove returning success when the user declines.
OpsRemoveDeclinedIsSuccess(metadata, d, inputs) ==
    IF "install_path" \notin DOMAIN metadata \/ ~Truthy(metadata.install_path)
    THEN [result |-> "False", prompt |-> FALSE, delete |-> FALSE]
    ELSE IF metadata.install_path.v \notin DOMAIN d
    THEN [result |-> "True", prompt |-> FALSE, delete |-> FALSE]
    ELSE CASE user_confirmation(inputs) = "True" ->
                  [result |-> "True", prompt |-> TRUE, delete |-> TRUE]
           [] user_confirmation(inputs) = "False" ->
                  [result |-> "True", prompt |-> TRUE, delete |-> FALSE]
           [] OTHER ->
                  [result |-> user_confirmation(inputs), prompt |-> TRUE, delete |-> FALSE]

\* model_operations.remove / map_operations.remove (the two are the same but
\* for their messages): the result ("True", "False" or the exception input()
\* raised), whether the user was asked, and whether rmtree was called.
OpsRemove(metadata, d, inputs) ==
    IF "install_path" \notin DOMAIN metadata \/ ~Truthy(metadata.install_path)
    THEN [result |-> "False", prompt |-> FALSE, delete |-> FALSE]
    ELSE IF metadata.install_path.v \notin DOMAIN d
    THEN [result |-> "True", prompt |-> FALSE, delete |-> FALSE]
    ELSE CASE user_confirmation(inputs) = "True" ->
                  [result |-> "True", prompt |-> TRUE, delete |-> TRUE]
           [] OTHER ->
                  [result |-> user_confirmation(inputs), prompt |-> TRUE, delete |-> FALSE]

\* AssetManager.remove.
Remove ==
    /\ pc = "idle"
    /\ ops < MaxOps
    /\ ops' = ops + 1
    /\ \E asset_name \in AssetNames :
       \E inputs \in InputsRead(/\ asset_name \in DOMAIN registry
                                /\ registry[asset_name].install_path.v \in DOMAIN dirs) :
       \E rm \in IF user_confirmation(inputs) = "True" THEN {"ok", "OSError"} ELSE {"ok"} :
       \E sv \in IF asset_name \in DOMAIN registry
                    /\ OpsRemove(registry[asset_name], dirs, inputs).result = "True"
                    /\ rm = "ok"
                 THEN SaveResults ELSE {"ok"} :
        LET begun == [NoRun EXCEPT !.op = "remove", !.trace = <<"remove">>,
                                   !.regBefore = registry, !.fileBefore = regFile,
                                   !.dirsBefore = dirs, !.target = asset_name,
                                   !.unsaved = run.unsaved]
        IN  IF asset_name \notin DOMAIN registry
            THEN /\ run' = [Log(begun, "error") EXCEPT
                                !.outcome = "failed", !.failure = "NotInRegistry",
                                !.reported = "error"]
                 /\ pc' = "idle"
                 /\ UNCHANGED <<registry, regFile, dirs>>
            ELSE LET metadata == registry[asset_name]
                     path == metadata.install_path.v
                     res == OpsRemove(metadata, dirs, inputs)
                     asked == IF res.prompt
                              THEN [Log(begun, "prompt") EXCEPT
                                        !.answer = user_confirmation(inputs)]
                              ELSE begun
                 IN  CASE res.result = "True" /\ (~res.delete \/ rm = "ok") ->
                              /\ dirs' = IF res.delete THEN Rmtree(dirs, path) ELSE dirs
                              /\ registry' = Del(registry, asset_name)
                              /\ regFile' = SaveRegistry(registry', regFile, sv)
                              /\ run' = [Log(Log(Log(
                                             IF res.delete THEN Log(asked, "rmtree") ELSE asked,
                                             "registry"),
                                             IF sv = "ok" THEN "save" ELSE "save-failed"),
                                             "info")
                                         EXCEPT !.outcome = IF res.delete THEN "DONE"
                                                            ELSE "already-removed",
                                                !.existed = res.delete,
                                                !.reported = "info",
                                                !.unsaved = IF sv = "ok" THEN @
                                                            ELSE @ \cup {asset_name}]
                              /\ pc' = "idle"
                       [] res.result = "True" /\ res.delete /\ rm # "ok" ->
                              /\ dirs' \in RmtreeLeftovers(dirs, path)
                              /\ run' = [Log(Log(asked, "rmtree"), "error") EXCEPT
                                             !.outcome = "failed", !.failure = "RemovalFailed",
                                             !.existed = TRUE, !.reported = "error"]
                              /\ pc' = "idle"
                              /\ UNCHANGED <<registry, regFile>>
                       [] res.result = "False" ->
                              /\ run' = [Log(asked, "error") EXCEPT
                                             !.outcome = IF res.prompt THEN "cancelled"
                                                         ELSE "failed",
                                             !.existed = res.prompt,
                                             !.reported = "error"]
                              /\ pc' = "idle"
                              /\ UNCHANGED <<registry, regFile, dirs>>
                       [] OTHER ->
                              /\ run' = [asked EXCEPT
                                             !.outcome = "raised", !.failure = res.result,
                                             !.existed = TRUE, !.reported = "traceback"]
                              /\ pc' = "down"
                              /\ UNCHANGED <<registry, regFile, dirs>>
    /\ UNCHANGED <<scratch, cur>>

Next ==
    \/ Startup
    \/ ProcessExit
    \/ InstallBegin
    \/ Acquiring
    \/ Extracting
    \/ Parsing
    \/ Planning
    \/ ConflictCheck
    \/ Installing
    \/ Cleanup
    \/ InstallReturn
    \/ Remove

Spec == Init /\ [][Next]_vars

-----------------------------------------------------------------------------
(* Single calls of the functions of utils.py and meta.py, on inputs chosen   *)
(* at the start. The registry and the install roots take no part.            *)

Parked ==
    /\ registry = EmptyRegistry
    /\ regFile = [state |-> "absent", doc |-> EmptyRegistry]
    /\ dirs = NoDirs
    /\ scratch = [k \in AssetTypes |-> "absent"]
    /\ ops = 0

\* The configs resolve_asset_path is called with, and one without a template.
Templates == {CdnUrlTemplate(kind) : kind \in AssetTypes} \cup {NoTemplate}

ResolveInit ==
    /\ pc = "resolve"
    /\ cur \in [ref : Refs, template : Templates, dl : DownloadResults]
    /\ run = [path |-> NoPath, downloads |-> <<>>, local_checked |-> FALSE]
    /\ Parked

\* resolve_asset_path(path_or_name, config)
Resolve ==
    /\ pc = "resolve"
    /\ run' = ResolveAssetPath(cur.ref, cur.template, cur.dl)
    /\ pc' = "resolved"
    /\ UNCHANGED <<registry, regFile, dirs, scratch, cur, ops>>

ResolveNext == Resolve

ResolveSpec == ResolveInit /\ [][ResolveNext]_vars

FetchInit ==
    /\ pc = "fetch"
    /\ cur \in [local : LocalFiles, first : Answers, fresh : Answers]
    /\ run = [ret |-> "None", file |-> NoFile, requests |-> <<>>]
    /\ Parked

\* download_from_url(url)
Fetch ==
    /\ pc = "fetch"
    /\ run' = DownloadFromUrl(cur.local, cur.first, cur.fresh)
    /\ pc' = "fetched"
    /\ UNCHANGED <<registry, regFile, dirs, scratch, cur, ops>>

FetchNext == Fetch

FetchSpec == FetchInit /\ [][FetchNext]_vars

\* The keys a descriptor is built from, and a value for each.
DescriptorKeys ==
    {"name", "date", "task_type", "framework", "model", "region", "district", "version"}
SampleValue(key) ==
    CASE key = "name" -> Str("lane_net")
      [] key = "date" -> Date("2024-05-01")
      [] key = "framework" -> Str("PyTorch")
      [] OTHER -> Str(key)

\* The YAML mappings parse_from is run on: every choice of keys, and for a
\* mapping with a name also the one whose name is null.
Descriptors ==
    LET plain == {[k \in keys |-> SampleValue(k)] : keys \in SUBSET DescriptorKeys}
    IN  plain \cup {[raw EXCEPT !["name"] = Null] : raw \in {r \in plain : "name" \in DOMAIN r}}

ParseInit ==
    /\ pc = "parse"
    /\ \E kind \in AssetTypes, raw \in Descriptors :
           cur = [kind |-> kind,
                  archive |-> Archive("descriptor", "ok", "single", MetaFilename(kind),
                                      "dict", raw)]
    /\ run = [ok |-> "None", named |-> "", verdict |-> "none"]
    /\ Parked

\* meta.parse_from(meta_file) and what install makes of its result.
Parse ==
    /\ pc = "parse"
    /\ run' = [ok |-> ParseFrom(cur.kind, cur.archive),
               named |-> FirstMissing(cur.kind, cur.archive.raw),
               verdict |-> ParsingVerdict(cur.kind, cur.archive)]
    /\ pc' = "parsed"
    /\ UNCHANGED <<registry, regFile, dirs, scratch, cur, ops>>

ParseNext == Parse

ParseSpec == ParseInit /\ [][ParseNext]_vars

\* Descriptors with every required field of the kind, a name that is a
\* string, empty or null, a framework of the table or not, and keys the
\* schema does not know, among them type and install_path. Those that
\* stage 3 of install lets through are the ones a record is made from.
RecordNames == {Str("lane_net"), Str(""), Null}
RecordFrameworks ==
    {Str("Caffe"), Str("PaddlePaddle"), Str("PyTorch"), Str("TensorFlow"), Str("Onnx"),
     Str("MXNet"), Str("pytorch"), Null}
ExtraValue(key) ==
    CASE key = "type" -> Str("dataset")
      [] key = "install_path" -> Str("/opt/elsewhere")
      [] OTHER -> SampleValue(key)
RecordDescriptors(kind) ==
    LET req == {RequiredFields(kind)[i] : i \in 1..Len(RequiredFields(kind))}
    IN  {[k \in req \cup extra |->
             CASE k = "name" -> name
               [] k = "framework" -> fw
               [] OTHER -> ExtraValue(k)] :
         name \in RecordNames, fw \in RecordFrameworks,
         extra \in SUBSET {"vendor", "type", "install_path"}}

RecordInit ==
    /\ pc = "record"
    /\ \E kind \in AssetTypes : \E raw \in RecordDescriptors(kind) :
           /\ ParsingVerdict(kind, Archive("descriptor", "ok", "single", MetaFilename(kind),
                                           "dict", raw)) = "continue"
           /\ cur = [kind |-> kind, raw |-> raw]
    /\ run = [install_path |-> "", metadata |-> [type |-> Null]]
    /\ Parked

\* get_install_path(meta), then meta.to_dict() and metadata['install_path'],
\* as install runs them on a parsed descriptor.
Record ==
    /\ pc = "record"
    /\ run' = [install_path |-> GetInstallPath(cur.kind, cur.raw),
               metadata |-> Metadata(cur.kind, cur.raw, GetInstallPath(cur.kind, cur.raw))]
    /\ pc' = "recorded"
    /\ UNCHANGED <<registry, regFile, dirs, scratch, cur, ops>>

RecordNext == Record

RecordSpec == RecordInit /\ [][RecordNext]_vars

\* What can be typed at the prompts of one confirmation, the line after the
\* last attempt included.
ConfirmTokens == {" YES ", "y", "No", "n", "maybe", "  ", "<EOF>"}
ConfirmInputs == [1..(MaxAttempts + 1) -> ConfirmTokens]

ConfirmInit ==
    /\ pc = "confirm"
    /\ cur \in [inputs : ConfirmInputs]
    /\ run = [answer |-> "none", reads |-> 0]
    /\ Parked

\* user_confirmation(question)
Confirm ==
    /\ pc = "confirm"
    /\ run' = [answer |-> user_confirmation(cur.inputs), reads |-> ReadsFrom(cur.inputs, 1)]
    /\ pc' = "confirmed"
    /\ UNCHANGED <<registry, regFile, dirs, scratch, cur, ops>>

ConfirmNext == Confirm

ConfirmSpec == ConfirmInit /\ [][ConfirmNext]_vars

-----------------------------------------------------------------------------
(* Properties                                                                *)

InTrace(event) == \E i \in DOMAIN run.trace : run.trace[i] = event

Precedes(a, b) ==
    \A j \in DOMAIN run.trace :
        run.trace[j] = b => \E i \in 1..(j - 1) : run.trace[i] = a

\* install has returned (or raised) to AssetManager.install, or the operation is over.
InstallOver == run.op = "install" /\ pc \in {"RETURNED", "idle", "down"}

\* C1: when install hands control back to its caller, by a return or by an
\* exception raised in a stage, the scratch directory of the asset kind it
\* was run for does not exist, whatever the outcome of the run.
C1_ScratchGoneOnReturn ==
    pc = "RETURNED" =>
        /\ scratch[cur.asset_type] = "absent"
        /\ run.trace[Len(run.trace)] = "CLEANUP"

\* C1 witness: install left by an exception of the extraction, after the
\* scratch directory had been created.
C1_Witness ==
    /\ pc = "RETURNED"
    /\ run.outcome = "raised"
    /\ InTrace("EXTRACTING")
    /\ scratch[cur.asset_type] = "absent"

\* C2 as claimed: between two operations, every record of the registry names
\* an install path that is an existing directory.
C2_RecordsHaveDirectories ==
    pc = "idle" =>
        \A n \in DOMAIN registry : registry[n].install_path.v \in DOMAIN dirs

\* C3: AssetManager.install reports a registry update only for a run that
\* ended DONE and returned a record; in every other run the registry in
\* memory and the registry file are what they were when install was called.
C3_RegistryWrittenOnlyOnDone ==
    run.op = "install" =>
        /\ run.reported = "info" => run.outcome = "DONE" /\ InTrace("move")
        /\ run.reported # "info" =>
               registry = run.regBefore /\ regFile = run.fileBefore

\* C3 witness: a declined overwrite has returned to a registry that holds a
\* record, and left it alone.
C3_Witness ==
    /\ pc = "idle"
    /\ run.op = "install"
    /\ run.outcome = "cancelled"
    /\ run.reported = "error"
    /\ DOMAIN registry # {}
    /\ registry = run.regBefore

\* The required fields of a descriptor, per asset kind.
C4_Required(kind) ==
    IF kind = "model" THEN {"name", "date", "task_type", "framework", "model"}
    ELSE {"name", "date", "region", "district"}

\* The archive in hand passes acquisition, extraction and parsing.
C4_WellFormed ==
    /\ cur.archive.zip = "ok"
    /\ cur.archive.form = "dict"
    /\ cur.archive.meta_name = (IF cur.asset_type = "model" THEN "apollo_deploy" ELSE "meta")
    /\ cur.asset_type = "map" => cur.archive.layout # "top"
    /\ C4_Required(cur.asset_type) \subseteq DOMAIN cur.archive.raw

C4_LaterStageEvents ==
    {"PLANNING", "CONFLICT_CHECK", "prompt", "rmtree", "INSTALLING", "move", "move-partial"}

\* C4: the pipeline stops at the first failing stage. A later stage is
\* entered only with an archive that passed the earlier ones; a run that
\* failed in ACQUIRING, EXTRACTING or PARSING has prompted for nothing,
\* removed nothing, moved nothing, leaves the registry as it was, and its
\* scratch directory is gone once it has returned.
C4_StopsAtFirstFailure ==
    /\ pc \in {"PLANNING", "CONFLICT_CHECK", "INSTALLING"} => C4_WellFormed
    /\ (/\ run.op = "install"
        /\ run.failure \in {"AssetNotFound", "ArchiveCorrupt", "DescriptorMissing",
                            "ValidationFailure"}) =>
           /\ \A e \in C4_LaterStageEvents : ~InTrace(e)
           /\ dirs = run.dirsBefore
           /\ registry = run.regBefore
           /\ regFile = run.fileBefore
           /\ pc \in {"RETURNED", "idle", "down"} => scratch[run.asset_type] = "absent"

\* C4 witness: a map whose descriptor has no region field was refused in
\* PARSING, with assets installed and registered.
C4_Witness ==
    /\ pc = "idle"
    /\ run.op = "install"
    /\ run.asset_type = "map"
    /\ run.failure = "ValidationFailure"
    /\ run.trace = <<"SETUP", "ACQUIRING", "EXTRACTING", "PARSING", "CLEANUP", "error">>
    /\ DOMAIN dirs # {}
    /\ DOMAIN registry # {}

\* C5: with a directory at the computed install path and skip set, install
\* returns None as skipped without prompting, the install roots are what
\* they were, and so are the registry and its file.
C5_SkipLeavesEverything ==
    (InstallOver /\ run.skip /\ run.existed) =>
        /\ run.outcome = "skipped"
        /\ ~InTrace("prompt") /\ ~InTrace("rmtree") /\ ~InTrace("INSTALLING")
        /\ dirs = run.dirsBefore
        /\ registry = run.regBefore
        /\ regFile = run.fileBefore
        /\ pc = "RETURNED" => cur.ret = "None"

\* C5 witness: a skipped install over an installed, registered asset.
C5_Witness ==
    /\ pc = "idle"
    /\ run.op = "install"
    /\ run.skip
    /\ run.existed
    /\ run.target \in DOMAIN dirs
    /\ DOMAIN registry # {}

\* C6: install deletes the directory at the target path only after the
\* user confirmed in this run; with skip set or the confirmation declined
\* the install roots stay as they were; with no directory at the target
\* path it goes on to INSTALLING without prompting.
C6_DeleteOnlyAfterConfirmation ==
    (run.op = "install" /\ InTrace("CONFLICT_CHECK")) =>
        /\ InTrace("rmtree") =>
               /\ run.existed /\ ~run.skip /\ run.answer = "True"
               /\ Precedes("prompt", "rmtree")
        /\ (run.existed /\ (run.skip \/ run.answer # "True")) =>
               /\ dirs = run.dirsBefore
               /\ ~InTrace("INSTALLING")
        /\ ~run.existed =>
               /\ ~InTrace("prompt") /\ ~InTrace("rmtree")
               /\ pc = "INSTALLING" \/ InTrace("INSTALLING")

\* C6 witness: an overwrite the user confirmed on the second attempt has
\* replaced the content of the install directory.
C6_Witness ==
    /\ pc = "idle"
    /\ run.op = "install"
    /\ run.existed
    /\ run.answer = "True"
    /\ InTrace("rmtree")
    /\ run.outcome = "DONE"
    /\ dirs[run.target] # run.dirsBefore[run.target]

\* C7 as claimed: the caller does not report a skipped or a declined
\* install as a failure.
C7_SkipAndDeclineAreNotErrors ==
    (run.op = "install" /\ run.outcome \in {"skipped", "cancelled"}) =>
        run.reported # "error"

\* C8 as claimed: a failed move ends install with an outcome returned to
\* the caller, not an exception, and nothing of this attempt is left at
\* the target path.
C8_MoveFailureIsReturned ==
    (pc = "RETURNED" /\ InTrace("INSTALLING") /\ run.outcome # "DONE") =>
        /\ cur.exc = "none"
        /\ run.target \notin DOMAIN dirs

\* C9 as claimed: no failure of an install or a remove ends the process.
C9_FailuresReturnControl ==
    run.op \in {"install", "remove"} => run.reported # "traceback"

\* C10 as claimed: after a mutating operation whose save succeeded, the
\* registry file reloads to the mapping held in memory.
C10_FileReloadsToMemory ==
    (pc = "idle" /\ run.reported = "info" /\ InTrace("save")) =>
        regFile.state = "json" /\ regFile.doc = registry

\* C10 amended: a successful install or remove changes the mapping in
\* memory, then writes the whole mapping, then reports; when the save
\* succeeded the registry file reloads to a mapping with the same names and
\* the same keys, each value equal to the one in memory but for a date,
\* which reloads as its ISO string. An install of lane_net into an empty
\* registry reloads as the one entry lane_net.
C10_FileReloadsToEncodedMemory ==
    (pc = "idle" /\ run.reported = "info") =>
        /\ Precedes("registry", "save") /\ Precedes("registry", "save-failed")
        /\ Precedes("save", "info") \/ Precedes("save-failed", "info")
        /\ InTrace("save") =>
               /\ regFile.state = "json"
               /\ DOMAIN regFile.doc = DOMAIN registry
               /\ \A n \in DOMAIN registry :
                      /\ DOMAIN regFile.doc[n] = DOMAIN registry[n]
                      /\ \A k \in DOMAIN registry[n] :
                             regFile.doc[n][k] =
                                 IF registry[n][k].t = "date"
                                 THEN [t |-> "str", v |-> registry[n][k].v]
                                 ELSE registry[n][k]
               /\ (run.op = "install" /\ run.regBefore = EmptyRegistry
                   /\ run.target = "models/lane_net_torch") =>
                      DOMAIN regFile.doc = {"lane_net"}

\* C10 witness: lane_net, whose descriptor holds a date, installed into an
\* empty registry and saved.
C10_Witness ==
    /\ pc = "idle"
    /\ run.op = "install"
    /\ run.reported = "info"
    /\ InTrace("save")
    /\ run.regBefore = EmptyRegistry
    /\ run.target = "models/lane_net_torch"
    /\ registry["lane_net"].date.t = "date"
    /\ regFile.doc["lane_net"].date.t = "str"

\* C11 as claimed: once a save of this process has failed, the registry file
\* equals the mapping in memory after the next operation that is saved.
C11_FileEqualsMemoryAfterLostSave ==
    (pc = "idle" /\ run.unsaved # {} /\ run.reported = "info" /\ InTrace("save")) =>
        regFile.state = "json" /\ regFile.doc = registry

\* The mapping json.load gives back for a mapping written by json.dump.
C11_Reloaded(reg) ==
    [n \in DOMAIN reg |->
        [k \in DOMAIN reg[n] |->
            IF reg[n][k].t = "date" THEN [t |-> "str", v |-> reg[n][k].v] ELSE reg[n][k]]]

\* C11 amended: a failed save leaves the change in memory (the operation
\* still reports success and the mapping is not rolled back); once a later
\* change of the same process is saved, the registry file holds the whole
\* mapping in memory, the unsaved changes included, each value as JSON
\* reloads it (a date as its ISO string).
C11_LaterSaveReconciles ==
    /\ (pc = "idle" /\ run.reported = "info" /\ InTrace("save-failed")) =>
           /\ registry # run.regBefore \/ run.op = "install"
           /\ run.op = "remove" => run.target \notin DOMAIN registry
           /\ run.op = "install" => \E n \in DOMAIN registry :
                                        registry[n].install_path.v = run.target
           /\ run.unsaved # {}
    /\ (pc = "idle" /\ run.unsaved # {} /\ run.reported = "info" /\ InTrace("save")) =>
           /\ regFile.state = "json"
           /\ regFile.doc = C11_Reloaded(registry)
           /\ run.op = "remove" => registry = Del(run.regBefore, run.target)
           /\ run.op = "install" =>
                  \E n \in DOMAIN registry :
                      /\ registry[n].install_path.v = run.target
                      /\ \A m \in DOMAIN run.regBefore \ {n} :
                             m \in DOMAIN registry /\ registry[m] = run.regBefore[m]

\* C11 witness: the save after installing lane_net failed, the install of
\* borregas_ave that followed in the same process was saved, and the file
\* holds both records.
C11_Witness ==
    /\ pc = "idle"
    /\ run.unsaved = {"lane_net"}
    /\ run.op = "install"
    /\ run.target = "maps/borregas_ave"
    /\ InTrace("save")
    /\ "lane_net" \notin DOMAIN run.fileBefore.doc
    /\ DOMAIN regFile.doc = {"lane_net", "borregas_ave"}
    /\ DOMAIN registry = {"lane_net", "borregas_ave"}

\* C12: a process starts by loading the registry file. With the file absent
\* it holds the empty mapping and writes it out (the file is the empty
\* mapping when the write went through); with a file that parses it holds
\* what the file holds; with a file that does not parse it ends at once: no
\* process is left to run an operation, and the file, the install roots and
\* the operations count are what they were.
C12_StartupLoadsOrStops ==
    [][pc = "down" =>
          /\ regFile.state = "absent" =>
                 /\ pc' = "idle"
                 /\ registry' = EmptyRegistry
                 /\ run'.trace \in {<<"save">>, <<"save-failed">>}
                 /\ run'.trace = <<"save">> =>
                        regFile' = [state |-> "json", doc |-> EmptyRegistry]
          /\ regFile.state = "json" =>
                 /\ pc' = "idle"
                 /\ registry' = regFile.doc
                 /\ regFile' = regFile
          /\ regFile.state = "partial" =>
                 /\ pc' = "down"
                 /\ run'.reported = "critical"
                 /\ regFile' = regFile
                 /\ dirs' = dirs
                 /\ ops' = ops]_vars

\* C12 witness: a process found the file of an earlier, failed write, with
\* an asset installed, and ended.
C12_Witness ==
    /\ pc = "down"
    /\ run.op = "startup"
    /\ run.outcome = "fatal"
    /\ regFile.state = "partial"
    /\ DOMAIN dirs # {}
    /\ ops < MaxOps

\* C13: remove, given a record whose install path is not on disk, returns
\* success without prompting, whatever is typed and however often it is
\* called; AssetManager.remove on such a record deletes nothing on disk,
\* deletes the record, saves the registry and reports success.
C13_MissingDirectoryIsAlreadyRemoved ==
    /\ \A n \in DOMAIN registry :
           registry[n].install_path.v \notin DOMAIN dirs =>
               \A inputs \in Inputs :
                   OpsRemove(registry[n], dirs, inputs) =
                       [result |-> "True", prompt |-> FALSE, delete |-> FALSE]
    /\ (/\ run.op = "remove"
        /\ run.target \in DOMAIN run.regBefore
        /\ run.regBefore[run.target].install_path.v \notin DOMAIN run.dirsBefore) =>
           /\ run.outcome = "already-removed"
           /\ run.reported = "info"
           /\ ~InTrace("prompt") /\ ~InTrace("rmtree")
           /\ dirs = run.dirsBefore
           /\ registry = Del(run.regBefore, run.target)
           /\ run.trace \in {<<"remove", "registry", "save", "info">>,
                              <<"remove", "registry", "save-failed", "info">>}
           /\ InTrace("save") =>
                  /\ regFile.state = "json"
                  /\ DOMAIN regFile.doc = DOMAIN run.regBefore \ {run.target}

\* C13 witness: the record of lane_net, whose directory is gone, was removed
\* and the registry saved without it.
C13_Witness ==
    /\ pc = "idle"
    /\ run.op = "remove"
    /\ run.target = "lane_net"
    /\ run.outcome = "already-removed"
    /\ "lane_net" \in DOMAIN run.regBefore
    /\ "models/lane_net_torch" \notin DOMAIN run.dirsBefore
    /\ "lane_net" \in DOMAIN run.fileBefore.doc
    /\ regFile.state = "json"
    /\ "lane_net" \notin DOMAIN regFile.doc

\* C14: AssetManager.remove deletes the record only when the removal
\* succeeded. When the user was asked and did not confirm, nothing is
\* deleted: the install roots, the registry and its file are what they
\* were. When rmtree failed on the confirmed removal, the directory is
\* still there, the record too, and the file was not written. A registry
\* that remove changed lost exactly the record asked for, after a removal
\* that succeeded.
C14_RecordStaysUnlessRemoved ==
    run.op = "remove" =>
        /\ (InTrace("prompt") /\ run.answer = "False") =>
               /\ run.outcome = "cancelled"
               /\ dirs = run.dirsBefore
               /\ registry = run.regBefore /\ run.target \in DOMAIN registry
               /\ regFile = run.fileBefore
               /\ run.trace = <<"remove", "prompt", "error">>
        /\ run.failure = "RemovalFailed" =>
               /\ run.answer = "True"
               /\ run.regBefore[run.target].install_path.v \in DOMAIN dirs
               /\ registry = run.regBefore /\ run.target \in DOMAIN registry
               /\ regFile = run.fileBefore
               /\ run.trace = <<"remove", "prompt", "rmtree", "error">>
        /\ (registry # run.regBefore \/ regFile # run.fileBefore) =>
               /\ run.outcome \in {"DONE", "already-removed"}
               /\ registry = Del(run.regBefore, run.target)
               /\ run.regBefore[run.target].install_path.v \notin DOMAIN dirs
               /\ run.outcome = "DONE" => run.answer = "True"

\* C14 witness: the user was asked about an installed, registered asset and
\* did not confirm.
C14_Witness ==
    /\ pc = "idle"
    /\ run.op = "remove"
    /\ run.outcome = "cancelled"
    /\ run.answer = "False"
    /\ run.target \in DOMAIN registry
    /\ registry[run.target].install_path.v \in DOMAIN dirs
    /\ regFile.state = "json"
    /\ run.target \in DOMAIN regFile.doc

\* C14 witness of the other case: rmtree failed on a confirmed removal and
\* the record is still registered.
C14_WitnessRemovalFailed ==
    /\ pc = "idle"
    /\ run.op = "remove"
    /\ run.failure = "RemovalFailed"
    /\ run.target \in DOMAIN registry
    /\ ~dirs[registry[run.target].install_path.v].whole

\* C15: for a reference that starts with http:// or https://, a download
\* that returns nothing or raises makes resolve return None at once: the
\* one URL asked for is the reference itself, the catalog URL is not asked
\* for, and the local-file step is not reached.
C15_UrlFailureIsTerminal ==
    (/\ pc = "resolved"
     /\ cur.ref.scheme \in {"http://", "https://"}
     /\ cur.dl \in {"None", "raise"}) =>
        /\ run.path = [kind |-> "None", of |-> ""]
        /\ run.downloads = <<cur.ref.scheme \o cur.ref.name>>
        /\ ~run.local_checked

\* C15 witness: the download of a URL raised, with a catalog template
\* configured and a file at the path the reference spells.
C15_Witness ==
    /\ pc = "resolved"
    /\ cur.ref = [scheme |-> "https://", name |-> "cdn.example/lane_net.zip",
                  exists |-> TRUE, is_file |-> TRUE]
    /\ cur.template = [pre |-> "https://example.com/maps/", post |-> ".zip"]
    /\ cur.dl = "raise"
    /\ run.path.kind = "None"

\* C16 as claimed: for every reference that names an existing regular file,
\* resolve returns that file and asks for no download.
C16_LocalFileNeedsNoDownload ==
    (pc = "resolved" /\ cur.ref.exists /\ cur.ref.is_file) =>
        /\ run.path = [kind |-> "local", of |-> cur.ref.scheme \o cur.ref.name]
        /\ run.downloads = <<>>

\* C16 amended: for every reference that does not start with http:// or
\* https:// and names an existing regular file, resolve returns that file
\* and asks for no download; a reference that starts with http:// or
\* https:// is downloaded, whatever exists at the path it spells.
C16_NonUrlLocalFileNeedsNoDownload ==
    pc = "resolved" =>
        /\ (/\ cur.ref.scheme \notin {"http://", "https://"}
            /\ cur.ref.exists /\ cur.ref.is_file) =>
               /\ run.path = [kind |-> "local", of |-> cur.ref.scheme \o cur.ref.name]
               /\ run.downloads = <<>>
        /\ cur.ref.scheme \in {"http://", "https://"} =>
               /\ run.downloads = <<cur.ref.scheme \o cur.ref.name>>
               /\ run.path.kind # "local"

\* C16 witness: a local file whose name could be an asset name, with a
\* catalog template configured and the catalog answering.
C16_Witness ==
    /\ pc = "resolved"
    /\ cur.ref = [scheme |-> "", name |-> "lane_net", exists |-> TRUE, is_file |-> TRUE]
    /\ cur.template.pre # ""
    /\ cur.dl = "ok"
    /\ run.path = [kind |-> "local", of |-> "lane_net"]

\* C17 as claimed: for every reference that is no URL and names no existing
\* regular file, a directory included, resolve with a template configured
\* asks for the catalog URL of the reference, and before the local-file step.
C17_CatalogTriedUnlessLocalFile ==
    (/\ pc = "resolved"
     /\ cur.ref.scheme \notin {"http://", "https://"}
     /\ ~(cur.ref.exists /\ cur.ref.is_file)
     /\ cur.template.pre \o cur.template.post # "") =>
        /\ run.downloads =
               <<cur.template.pre \o cur.ref.scheme \o cur.ref.name \o cur.template.post>>
        /\ run.local_checked => cur.dl # "ok"

\* C18: when the request with a Range header is answered 416, the local
\* file is dropped and the URL is asked for once more, without a Range
\* header, and no further request follows whatever the answer. When that
\* answer arrives whole, the call returns the local file and the file is
\* the remote file; when it does not, the call returns None and nothing of
\* the old file is left.
C18_RestartsOnceAfter416 ==
    (pc = "fetched" /\ cur.local.exists /\ cur.first.status = "416") =>
        /\ run.requests = <<[ranged |-> TRUE, from |-> Len(cur.local.content)],
                            [ranged |-> FALSE, from |-> 0]>>
        /\ (cur.fresh.status \in {"200", "206"} /\ cur.fresh.complete) =>
               /\ run.ret = "local_file"
               /\ run.file = [exists |-> TRUE, content |-> <<"b1", "b2">>]
        /\ ~(cur.fresh.status \in {"200", "206"} /\ cur.fresh.complete) =>
               /\ run.ret = "None"
               /\ \/ ~run.file.exists
                  \/ /\ cur.fresh.status \in {"200", "206"}
                     /\ run.file.content = <<"b1">>

\* C18 witness: a download cut at one block of two was answered 416 and
\* fetched anew, whole.
C18_Witness ==
    /\ pc = "fetched"
    /\ cur.local = [exists |-> TRUE, content |-> <<"b1">>]
    /\ cur.first.status = "416"
    /\ cur.fresh = [status |-> "200", complete |-> TRUE]
    /\ Len(run.requests) = 2
    /\ run.file.content = <<"b1", "b2">>

\* C19 as claimed: when the extraction fails, the scratch directory has
\* been removed by the time unzip_file returns its failure to install.
C19_FailedExtractRemovesDirectory ==
    (/\ pc = "CLEANUP"
     /\ run.failure = "ArchiveCorrupt"
     /\ run.trace[Len(run.trace)] = "EXTRACTING") =>
        scratch[cur.asset_type] = "absent"

\* C20: a YAML mapping that lacks a required field of its kind fails to
\* parse; the field the failure names is one that is missing, the only one
\* when one is missing; install gets no metadata from it and stops with a
\* validation failure. A mapping that has every required field of its kind
\* parses, whatever else it holds and whatever the values are.
C20_RequiredFieldsDecideParse ==
    pc = "parsed" =>
        LET missing == C4_Required(cur.kind) \ DOMAIN cur.archive.raw
        IN  /\ missing # {} =>
                   /\ run.ok = "False"
                   /\ run.named \in missing
                   /\ Cardinality(missing) = 1 => missing = {run.named}
                   /\ run.verdict = "ValidationFailure"
            /\ missing = {} =>
                   /\ run.ok = "True"
                   /\ run.named = ""

\* C20 witness: a map descriptor with every field but region was refused,
\* and region named.
C20_Witness ==
    /\ pc = "parsed"
    /\ cur.kind = "map"
    /\ DOMAIN cur.archive.raw = {"name", "date", "district", "version"}
    /\ run.ok = "False"
    /\ run.named = "region"

\* C21: the record made from a parsed descriptor has the keys of the
\* descriptor and the two keys type and install_path; every key of the
\* descriptor other than these two holds the value of the descriptor, the
\* keys outside the schema included; type is the kind of the install, also
\* when the descriptor has a type of its own, and install_path is the
\* computed path, also when the descriptor has one of its own.
C21_RecordKeepsDescriptor ==
    pc = "recorded" =>
        /\ DOMAIN run.metadata = DOMAIN cur.raw \cup {"type", "install_path"}
        /\ \A k \in DOMAIN cur.raw \ {"type", "install_path"} :
               run.metadata[k] = cur.raw[k]
        /\ run.metadata["type"] = [t |-> "str", v |-> cur.kind]
        /\ run.metadata["install_path"] = [t |-> "str", v |-> run.install_path]

\* C21 witness: a model descriptor with a vendor, a type and an install_path
\* of its own.
C21_Witness ==
    /\ pc = "recorded"
    /\ cur.kind = "model"
    /\ {"vendor", "type", "install_path"} \subseteq DOMAIN cur.raw
    /\ cur.raw["type"].v = "dataset"
    /\ run.metadata["vendor"] = cur.raw["vendor"]
    /\ run.metadata["type"].v = "model"

\* The abbreviation table of the model config.
C22_Abbreviation(fw) ==
    CASE fw = [t |-> "str", v |-> "Caffe"] -> "caffe"
      [] fw = [t |-> "str", v |-> "PaddlePaddle"] -> "paddle"
      [] fw = [t |-> "str", v |-> "PyTorch"] -> "torch"
      [] fw = [t |-> "str", v |-> "TensorFlow"] -> "tf"
      [] fw = [t |-> "str", v |-> "Onnx"] -> "onnx"
      [] OTHER -> "unknown"

\* C22: the install path of a model is <model root>/<name>_<abbr>, abbr
\* taken from the table and "unknown" for every other framework; the one
\* of a map with a name is <map root>/<name>; the install_path of the
\* record is this path.
C22_InstallPathFromMetadata ==
    pc = "recorded" =>
        /\ cur.kind = "model" =>
               run.install_path =
                   "models/" \o cur.raw["name"].v \o "_" \o C22_Abbreviation(cur.raw["framework"])
        /\ cur.kind = "map" =>
               run.install_path = "maps/" \o cur.raw["name"].v
        /\ run.metadata["install_path"].v = run.install_path

\* C22 witness: a model of a framework the table does not hold.
C22_Witness ==
    /\ pc = "recorded"
    /\ cur.kind = "model"
    /\ cur.raw["framework"].v = "MXNet"
    /\ run.install_path = "models/lane_net_unknown"

\* C23: a confirmation calls input() at most three times. With a line to
\* read at every call, it returns True when the first of the first three
\* lines that is a yes or a no (whatever the case and the blanks around it)
\* is a yes, False when it is a no, reading nothing after it, and False
\* when none of the three is either. It raises only when standard input
\* ends before that.
C23_AtMostThreeInputs ==
    pc = "confirmed" =>
        LET yes == {" YES ", "y"}
            no == {"No", "n"}
            valid == {i \in 1..3 : cur.inputs[i] \in yes \cup no}
            last == IF valid = {} THEN 3 ELSE CHOOSE i \in valid : \A j \in valid : i <= j
            eof == \E i \in 1..last : cur.inputs[i] = "<EOF>"
        IN  /\ run.reads \in 1..3
            /\ ~eof =>
                   /\ run.reads = last
                   /\ run.answer = "True" <=> (valid # {} /\ cur.inputs[last] \in yes)
                   /\ run.answer = "False" <=> (valid = {} \/ cur.inputs[last] \in no)
            /\ run.answer \notin {"True", "False"} <=> eof

\* C23 witness: an invalid line, then a no, then a yes that is not read.
C23_Witness ==
    /\ pc = "confirmed"
    /\ cur.inputs[1] = "maybe"
    /\ cur.inputs[2] = "No"
    /\ cur.inputs[3] = " YES "
    /\ run.answer = "False"
    /\ run.reads = 2

\* C24 as claimed: the registry file never holds an empty or partial
\* document; after a save that failed it is the file of before the save.
C24_SaveIsAtomic ==
    /\ regFile.state # "partial"
    /\ (pc = "idle" /\ run.op \in {"install", "remove"} /\ InTrace("save-failed")) =>
           regFile = run.fileBefore

\* C25: with a local file that holds the first blocks of the remote file
\* (none, some or all of them), the first request carries a Range header
\* from the size of the local file; a call that returns the file leaves it
\* equal to the remote file, whether the server sent the rest (206), the
\* whole file (200) or a 416 followed by the whole file; a partial file is
\* never followed by the whole body.
C25_ResumeKeepsFileWhole ==
    (/\ pc = "fetched"
     /\ cur.local.exists
     /\ cur.local.content \in {<<>>, <<"b1">>, <<"b1", "b2">>}) =>
        /\ run.requests[1] = [ranged |-> TRUE, from |-> Len(cur.local.content)]
        /\ run.ret = "local_file" => run.file = [exists |-> TRUE, content |-> <<"b1", "b2">>]
        /\ (run.ret = "local_file" /\ cur.first.status = "416") => Len(run.requests) = 2
        /\ (run.ret = "local_file" /\ cur.first.status # "416") => Len(run.requests) = 1
        /\ cur.local.content # <<>> =>
               run.file.content # cur.local.content \o <<"b1", "b2">>

\* C25 witness: the server ignored the Range header of a resumed download
\* and sent the whole file, which replaced the partial one.
C25_Witness ==
    /\ pc = "fetched"
    /\ cur.local = [exists |-> TRUE, content |-> <<"b1">>]
    /\ cur.first = [status |-> "200", complete |-> TRUE]
    /\ run.ret = "local_file"
    /\ run.file.content = <<"b1", "b2">>

\* C25 witness of the honoured range: the rest was appended to the part.
C25_WitnessAppended ==
    /\ pc = "fetched"
    /\ cur.local = [exists |-> TRUE, content |-> <<"b1">>]
    /\ cur.first = [status |-> "206", complete |-> TRUE]
    /\ run.ret = "local_file"
    /\ run.file.content = <<"b1", "b2">>

\* C26 as claimed: after an install that moved the content to the install
\* path, some record of the registry has that install path.
C26_InstalledMeansRegistered ==
    (pc = "idle" /\ run.op = "install" /\ run.outcome = "DONE" /\ InTrace("move")) =>
        \E n \in DOMAIN registry : registry[n].install_path.v = run.target

\* C27 as claimed: a successful, saved install into a state where every
\* directory under the install roots is the install path of a record
\* leaves such a state.
C27_NoDirectoryLosesItsRecord ==
    (/\ pc = "idle" /\ run.op = "install" /\ run.outcome = "DONE"
     /\ run.reported = "info" /\ InTrace("save")
     /\ \A p \in DOMAIN run.dirsBefore :
            \E n \in DOMAIN run.regBefore : run.regBefore[n].install_path.v = p) =>
        \A p \in DOMAIN dirs :
            \E n \in DOMAIN registry : registry[n].install_path.v = p

\* C28: resolve asks the catalog only for a reference whose path does not
\* exist; when that download returns nothing or raises, resolve goes on to
\* the local-file step, which fails, and returns None.
C28_FailedCatalogNeverYieldsLocal ==
    (/\ pc = "resolved"
     /\ cur.ref.scheme \notin {"http://", "https://"}
     /\ run.downloads # <<>>) =>
        /\ ~cur.ref.exists
        /\ run.downloads =
               <<cur.template.pre \o cur.ref.scheme \o cur.ref.name \o cur.template.post>>
        /\ cur.dl \in {"None", "raise"} =>
               /\ run.local_checked
               /\ run.path = [kind |-> "None", of |-> ""]

\* C28 witness: the catalog download of a bare name raised and resolve
\* ended without an archive.
C28_Witness ==
    /\ pc = "resolved"
    /\ cur.ref = [scheme |-> "", name |-> "lane_net", exists |-> FALSE, is_file |-> FALSE]
    /\ cur.dl = "raise"
    /\ Len(run.downloads) = 1
    /\ run.local_checked
    /\ run.path.kind = "None"

====
